---------------------------- MODULE Spec2Model ----------------------------
(***************************************************************************)
(* Model of the virtual .mp4 file assembler of Moonfire NVR (src/mp4.cc):  *)
(* Mp4FileBuilder (Append, SetSampleEntry, Build), the sample table pieces *)
(* of one segment (Mp4SampleTablePieces::Init and its fillers), the box     *)
(* layout of Mp4File (ScopedMp4Box, AppendMoov, AppendStbl, the mdat box)   *)
(* and the serving of byte ranges (Mp4File::AddRange).                      *)
(***************************************************************************)
EXTENDS Integers, Sequences, FiniteSets, TLC

(***************************************************************************)
(* Bounds of the model.                                                    *)
(***************************************************************************)
\* Frames in all the recordings appended to one builder, together.
MaxTotalFrames == 3

\* Frames of the one recording of a single-segment build.
MaxPiecesFrames == 3

\* Segments of a file whose byte ranges are served.
MaxServeSegments == 2

\* Segments of a build over recordings of either sample entry.
MaxBuildSegments == 2

\* Segments of a file of long recordings.
MaxDurationSegments == 3

(***************************************************************************)
(* Byte encodings (coding.h: AppendU32, Append32, AppendU64, ToNetwork32,  *)
(* ToNetworkU64): network byte order, two's complement.                     *)
(***************************************************************************)
U16(v) == << (v \div 256) % 256, v % 256 >>

U32(v) ==
    << (v \div 16777216) % 256, (v \div 65536) % 256, (v \div 256) % 256, v % 256 >>

U64(v) == (IF v < 0 THEN << 255, 255, 255, 255 >> ELSE << 0, 0, 0, 0 >>) \o U32(v)

AppendU32(v, s) == s \o U32(v)

Append32(v, s) == s \o U32(v)

AppendU64(v, s) == s \o U64(v)

\* The big-endian u32 at the 0-based byte offset off of s.
DecodeU32(s, off) ==
    s[off + 1] * 16777216 + s[off + 2] * 65536 + s[off + 3] * 256 + s[off + 4]

\* The big-endian u64 at the 0-based byte offset off of s (high word 0).
DecodeU64(s, off) == DecodeU32(s, off + 4)

RECURSIVE Concat(_)
Concat(ss) == IF ss = << >> THEN << >> ELSE Head(ss) \o Concat(Tail(ss))

RECURSIVE SumSeq(_)
SumSeq(s) == IF s = << >> THEN 0 ELSE Head(s) + SumSeq(Tail(s))

Min(a, b) == IF a <= b THEN a ELSE b

Max(a, b) == IF a >= b THEN a ELSE b

(***************************************************************************)
(* Recordings and their sample index (recording.h). A frame of the index   *)
(* has a duration in 90 kHz units, a size in bytes and a key flag. Every    *)
(* frame but the last lasts until the next one starts; the last frame of a  *)
(* recording may have duration 0.                                           *)
(***************************************************************************)
FrameKinds == { [is_key |-> TRUE, bytes |-> 2], [is_key |-> FALSE, bytes |-> 1] }

InnerFrames == { [duration_90k |-> 1, bytes |-> k.bytes, is_key |-> k.is_key] : k \in FrameKinds }

LastFrames ==
    { [duration_90k |-> d, bytes |-> k.bytes, is_key |-> k.is_key] :
        d \in {0, 1}, k \in FrameKinds }

RECURSIVE IndexesOfLen(_)
IndexesOfLen(n) ==
    IF n = 1 THEN { << f >> : f \in LastFrames }
    ELSE { << f >> \o t : f \in InnerFrames, t \in IndexesOfLen(n - 1) }

SampleEntryIds == {1, 2}

\* The recordings of at most n frames that reference sample entry id.
RecordingsUpTo(n, id) ==
    { [video_index |-> ix, video_sample_entry_id |-> id, start_time_90k |-> 0] :
        ix \in UNION { IndexesOfLen(k) : k \in 1..n } }

video_samples(rec) == Len(rec.video_index)

video_sync_samples(rec) ==
    Cardinality({ i \in 1..Len(rec.video_index) : rec.video_index[i].is_key })

sample_file_bytes(rec) ==
    SumSeq([ i \in 1..Len(rec.video_index) |-> rec.video_index[i].bytes ])

end_time_90k(rec) ==
    rec.start_time_90k
        + SumSeq([ i \in 1..Len(rec.video_index) |-> rec.video_index[i].duration_90k ])

\* Recording invariant: end > start.
ValidRecording(rec) == end_time_90k(rec) > rec.start_time_90k

\* The bytes of the recording's sample file; byte o (0-based) of frame i.
SampleFileData(rec) ==
    Concat([ i \in 1..Len(rec.video_index) |->
               [ o \in 1..rec.video_index[i].bytes |-> (16 * i + o) % 256 ] ])

(***************************************************************************)
(* SampleIndexIterator: a position it in the index, 1..Len, done past the   *)
(* last frame. Position 0 is a default-constructed iterator (no data).      *)
(***************************************************************************)
ItDone(rec, it) == it = 0 \/ it > Len(rec.video_index)

ItStart90k(rec, it) ==
    SumSeq([ i \in 1..(Min(it, Len(rec.video_index) + 1) - 1) |->
               rec.video_index[i].duration_90k ])

ItPos(rec, it) ==
    SumSeq([ i \in 1..(Min(it, Len(rec.video_index) + 1) - 1) |->
               rec.video_index[i].bytes ])

ItDuration90k(rec, it) == rec.video_index[it].duration_90k

ItEnd90k(rec, it) == ItStart90k(rec, it) + ItDuration90k(rec, it)

ItBytes(rec, it) == rec.video_index[it].bytes

ItIsKey(rec, it) == rec.video_index[it].is_key

(***************************************************************************)
(* Mp4SampleTablePieces.                                                   *)
(***************************************************************************)
\* The values actual_end_90k_ may hold before Init assigns it.
UnsetActualEnd == {-1, 0}

\* A Mp4SampleTablePieces before Init.
NewPieces(ae) ==
    [ begin_ |-> 0, sample_pos_ |-> [begin |-> 0, end |-> 0],
      frames_ |-> 0, key_frames_ |-> 0,
      actual_end_90k_ |-> ae, desired_end_90k_ |-> -1,
      sample_offset_ |-> -1, sample_entry_index_ |-> -1 ]

InitFastPath(rec, start_90k, end_90k) ==
    /\ start_90k = 0
    /\ end_90k >= end_time_90k(rec) - rec.start_time_90k

\* A fast path that takes the number of frames for the number of bytes.
FastPathSamplePosEndFrames(rec) == video_samples(rec)

\* The end of the byte range of the fast path: the whole sample file.
FastPathSamplePosEnd(rec) == sample_file_bytes(rec)

\* A frame that starts at or before start_90k and is a key frame is the new
\* candidate to begin at.
StartCandidate(rec, it, start_90k) ==
    ItStart90k(rec, it) <= start_90k /\ ItIsKey(rec, it)

\* A frame that starts at or after end_90k is past the end of the window.
PastEndByFrameEnd(rec, it, end_90k) == ItEnd90k(rec, it) >= end_90k

PastEnd(rec, it, end_90k) == ItStart90k(rec, it) >= end_90k

\* The frame loop of Init's slow path, from iterator position it.
RECURSIVE InitScan(_, _, _, _, _)
InitScan(rec, it, start_90k, end_90k, p) ==
    IF ItDone(rec, it)
    THEN [p EXCEPT !.sample_pos_.end = ItPos(rec, it)]
    ELSE LET p1 == IF StartCandidate(rec, it, start_90k)
                   THEN [p EXCEPT !.begin_ = it,
                                  !.sample_pos_.begin = ItPos(rec, it),
                                  !.frames_ = 0,
                                  !.key_frames_ = 0]
                   ELSE p
         IN  IF PastEnd(rec, it, end_90k)
             THEN [p1 EXCEPT !.sample_pos_.end = ItPos(rec, it)]
             ELSE InitScan(rec, it + 1, start_90k, end_90k,
                           [p1 EXCEPT !.frames_ = @ + 1,
                                      !.key_frames_ =
                                          IF ItIsKey(rec, it) THEN @ + 1 ELSE @,
                                      !.actual_end_90k_ = ItEnd90k(rec, it)])

\* Mp4SampleTablePieces::Init on the pieces p0: [ok, error_message, pieces].
PiecesInit(p0, rec, sample_entry_index, sample_offset, start_90k, end_90k) ==
    LET p == [p0 EXCEPT !.sample_entry_index_ = sample_entry_index,
                        !.sample_offset_ = sample_offset,
                        !.desired_end_90k_ = end_90k]
    IN  IF InitFastPath(rec, start_90k, end_90k)
        THEN [ ok |-> TRUE, error_message |-> "",
               pieces |-> [p EXCEPT !.sample_pos_.end = FastPathSamplePosEnd(rec),
                                    !.begin_ = 1,
                                    !.frames_ = video_samples(rec),
                                    !.key_frames_ = video_sync_samples(rec),
                                    !.actual_end_90k_ =
                                        end_time_90k(rec) - rec.start_time_90k] ]
        ELSE IF ~ItDone(rec, 1) /\ ~ItIsKey(rec, 1)
        THEN [ ok |-> FALSE, error_message |-> "First frame must be a key frame.",
               pieces |-> p ]
        ELSE [ ok |-> TRUE, error_message |-> "",
               pieces |-> InitScan(rec, 1, start_90k, end_90k, p) ]

stts_entry_count(p) == p.frames_

stss_entry_count(p) == p.key_frames_

stsz_entry_count(p) == p.frames_

samples(p) == p.frames_

sample_pos(p) == p.sample_pos_

\* The sizes Init declares for the three filler slices.
stts_entries_size(p) == 2 * 4 * stts_entry_count(p)

stss_entries_size(p) == 4 * stss_entry_count(p)

stsz_entries_size(p) == 4 * stsz_entry_count(p)

pieces_start_90k(rec, p) == ItStart90k(rec, p.begin_)

pieces_end_90k(p) == p.actual_end_90k_

pieces_duration_90k(rec, p) == p.actual_end_90k_ - ItStart90k(rec, p.begin_)

\* The iterator positions a filler visits: from begin_ while the frame
\* starts before desired_end_90k_.
RECURSIVE FillerFrames(_, _, _)
FillerFrames(rec, p, it) ==
    IF ~ItDone(rec, it) /\ ItStart90k(rec, it) < p.desired_end_90k_
    THEN << it >> \o FillerFrames(rec, p, it + 1)
    ELSE << >>

FillSttsEntries(rec, p) ==
    LET its == FillerFrames(rec, p, p.begin_)
    IN  Concat([ n \in 1..Len(its) |->
                   AppendU32(ItDuration90k(rec, its[n]), AppendU32(1, << >>)) ])

FillStssEntries(rec, p) ==
    LET its == FillerFrames(rec, p, p.begin_)
    IN  Concat([ n \in 1..Len(its) |->
                   IF ItIsKey(rec, its[n])
                   THEN Append32(p.sample_offset_ + (n - 1), << >>)
                   ELSE << >> ])

FillStszEntries(rec, p) ==
    LET its == FillerFrames(rec, p, p.begin_)
    IN  Concat([ n \in 1..Len(its) |-> Append32(ItBytes(rec, its[n]), << >>) ])

\* Mp4SampleTablePieces::FillStscEntries, which no table of Mp4File uses.
PiecesFillStscEntries(p) ==
    Append32(p.sample_entry_index_, Append32(p.frames_, Append32(p.sample_offset_, << >>)))

(***************************************************************************)
(* FileSlices (http.h): an append-only sequence of slices, each of a size   *)
(* known when it is appended. A slice is [name, seg, size]: seg is the      *)
(* segment a per-segment slice belongs to, 0 for the others.                *)
(***************************************************************************)
FileSlicesSize(slices) == SumSeq([ i \in 1..Len(slices) |-> slices[i].size ])

FileSlicesAppend(slices, slice) == Append(slices, slice)

\* The offset at which slice i starts.
SliceStart(slices, i) == FileSlicesSize(SubSeq(slices, 1, i - 1))

\* The index of the slice called name of segment seg.
SliceIndex(slices, name, seg) ==
    CHOOSE i \in 1..Len(slices) : slices[i].name = name /\ slices[i].seg = seg

(***************************************************************************)
(* The static boxes and the box header structs.                            *)
(***************************************************************************)
kFtypBox ==
    << 0, 0, 0, 32,  102, 116, 121, 112,  105, 115, 111, 109,  0, 0, 2, 0,
       105, 115, 111, 109,  105, 115, 111, 50,  97, 118, 99, 49,  109, 112, 52, 49 >>

kVmhdAndDinfBoxes ==
    << 0, 0, 0, 20,  118, 109, 104, 100,  0, 0, 0, 1,  0, 0, 0, 0,  0, 0, 0, 0,
       0, 0, 0, 36,  100, 105, 110, 102,  0, 0, 0, 28,  100, 114, 101, 102,
       0, 0, 0, 0,  0, 0, 0, 1,  0, 0, 0, 12,  117, 114, 108, 32,  0, 0, 0, 1 >>

kHdlrBox ==
    << 0, 0, 0, 33,  104, 100, 108, 114,  0, 0, 0, 0,  0, 0, 0, 0,
       118, 105, 100, 101,  0, 0, 0, 0,  0, 0, 0, 0,  0, 0, 0, 0,  0 >>

kTimeUnitsPerSecond == 90000

ToIso14496Timestamp(time_90k) == (time_90k \div kTimeUnitsPerSecond) + 24107 * 86400

\* The boxes Mp4File opens through ScopedMp4Box (CONSTRUCT_BOX).
ScopedBoxes ==
    { "moov", "mvhd", "trak", "tkhd", "mdia", "mdhd", "minf", "stbl",
      "stsd", "stts", "stsc", "stsz", "co64", "stss" }

BoxType(box) ==
    CASE box = "moov" -> << 109, 111, 111, 118 >>
      [] box = "mvhd" -> << 109, 118, 104, 100 >>
      [] box = "trak" -> << 116, 114, 97, 107 >>
      [] box = "tkhd" -> << 116, 107, 104, 100 >>
      [] box = "mdia" -> << 109, 100, 105, 97 >>
      [] box = "mdhd" -> << 109, 100, 104, 100 >>
      [] box = "minf" -> << 109, 105, 110, 102 >>
      [] box = "stbl" -> << 115, 116, 98, 108 >>
      [] box = "stsd" -> << 115, 116, 115, 100 >>
      [] box = "stts" -> << 115, 116, 116, 115 >>
      [] box = "stsc" -> << 115, 116, 115, 99 >>
      [] box = "stsz" -> << 115, 116, 115, 122 >>
      [] box = "co64" -> << 99, 111, 54, 52 >>
      [] box = "stss" -> << 115, 116, 115, 115 >>
      [] box = "mdat" -> << 109, 100, 97, 116 >>

Matrix ==
    U32(65536) \o U32(0) \o U32(0) \o U32(0) \o U32(65536) \o U32(0) \o U32(0)
        \o U32(0) \o U32(1073741824)

\* sizeof the header struct of a box.
HeaderSize(box) ==
    CASE box \in {"moov", "trak", "mdia", "minf", "stbl"} -> 8
      [] box = "mvhd" -> 108
      [] box = "tkhd" -> 92
      [] box = "mdhd" -> 32
      [] box \in {"stsd", "stts", "stsc", "co64", "stss"} -> 16
      [] box = "stsz" -> 20
      [] box = "mdat" -> 16

(***************************************************************************)
(* ScopedMp4Box: construction appends the box's header slice and remembers  *)
(* the size of the slices before it; destruction writes the box's length.   *)
(* A layout L is the slices_ built so far, each open box's starting_size_,   *)
(* each header's size field and the log of constructions and destructions.  *)
(***************************************************************************)
NewLayout ==
    [ slices |-> << >>,
      starting_size |-> [ b \in ScopedBoxes |-> -1 ],
      header_size |-> [ b \in ScopedBoxes |-> 0 ],
      log |-> << >> ]

ScopedMp4BoxOpen(L, box) ==
    [ L EXCEPT !.starting_size[box] = FileSlicesSize(L.slices),
               !.slices = FileSlicesAppend(L.slices,
                              [name |-> box, seg |-> 0, size |-> HeaderSize(box)]),
               !.log = Append(L.log, [ev |-> "open", box |-> box,
                                     at |-> FileSlicesSize(L.slices)]) ]

\* A destructor that writes the offset of the box's end, not its length.
ScopedMp4BoxLengthAbsolute(slices_size, starting_size) == slices_size

\* The length the destructor writes into the header.
ScopedMp4BoxLength(slices_size, starting_size) == slices_size - starting_size

ScopedMp4BoxClose(L, box) ==
    [ L EXCEPT !.header_size[box] =
                   ScopedMp4BoxLength(FileSlicesSize(L.slices), L.starting_size[box]),
               !.log = Append(L.log, [ev |-> "close", box |-> box,
                                     at |-> FileSlicesSize(L.slices)]) ]

LayoutAppend(L, name, seg, size) ==
    [ L EXCEPT !.slices = FileSlicesAppend(L.slices,
                              [name |-> name, seg |-> seg, size |-> size]) ]

Open(box) == [op |-> "open", name |-> box, seg |-> 0, size |-> 0]

Close(box) == [op |-> "close", name |-> box, seg |-> 0, size |-> 0]

Slice(name, seg, size) == [op |-> "append", name |-> name, seg |-> seg, size |-> size]

\* Runs the constructions, destructions and appends of ops in order.
RECURSIVE RunOps(_, _)
RunOps(ops, L) ==
    IF ops = << >> THEN L
    ELSE LET o == Head(ops)
         IN  RunOps(Tail(ops),
                    CASE o.op = "open" -> ScopedMp4BoxOpen(L, o.name)
                      [] o.op = "close" -> ScopedMp4BoxClose(L, o.name)
                      [] o.op = "append" -> LayoutAppend(L, o.name, o.seg, o.size))

(***************************************************************************)
(* Mp4File. segs are the segments ([recording, rel_start_90k, rel_end_90k,  *)
(* pieces]) and entry the video sample entry the builder hands over.        *)
(***************************************************************************)
\* AppendStbl as the sequence of its scopes and appends.
AppendStblOps(segs, entry) ==
    << Open("stbl"),
       Open("stsd"), Slice("stsd_entry", 0, Len(entry.data)), Close("stsd"),
       Open("stts") >>
    \o [ k \in 1..Len(segs) |-> Slice("stts_entries", k, stts_entries_size(segs[k].pieces)) ]
    \o << Close("stts"),
          Open("stsc"), Slice("stsc_entries", 0, 3 * 4 * Len(segs)), Close("stsc"),
          Open("stsz") >>
    \o [ k \in 1..Len(segs) |-> Slice("stsz_entries", k, stsz_entries_size(segs[k].pieces)) ]
    \o << Close("stsz"),
          Open("co64"), Slice("co64_entries", 0, 8 * Len(segs)), Close("co64"),
          Open("stss") >>
    \o [ k \in 1..Len(segs) |-> Slice("stss_entries", k, stss_entries_size(segs[k].pieces)) ]
    \o << Close("stss"),
          Close("stbl") >>

\* AppendMoov as the sequence of its scopes and appends.
AppendMoovOps(segs, entry) ==
    << Open("moov"),
       Open("mvhd"), Close("mvhd"),
       Open("trak"),
       Open("tkhd"), Close("tkhd"),
       Open("mdia"),
       Open("mdhd"), Close("mdhd"),
       Slice("hdlr", 0, Len(kHdlrBox)),
       Open("minf"),
       Slice("vmhddinf", 0, Len(kVmhdAndDinfBoxes)) >>
    \o AppendStblOps(segs, entry)
    \o << Close("minf"), Close("mdia"), Close("trak"), Close("moov") >>

\* The size of segment k's sample_file_slice after its Init.
SampleFileSliceSize(p) == sample_pos(p).end - sample_pos(p).begin

\* The appends of the mdat header and of each segment's sample file slice.
RECURSIVE AppendSampleFiles(_, _, _)
AppendSampleFiles(L, segs, k) ==
    IF k > Len(segs) THEN L
    ELSE AppendSampleFiles(
             LayoutAppend(L, "sample_file", k, SampleFileSliceSize(segs[k].pieces)),
             segs, k + 1)

\* A largesize that leaves the mdat header out.
MdatLargesizePayloadOnly(slices_size, size_before_mdat) ==
    slices_size - size_before_mdat - 16

\* mdat's largesize, from the size of the slices at the end and before mdat.
MdatLargesize(slices_size, size_before_mdat) == slices_size - size_before_mdat

\* The total duration and the latest end time of the segments.
\* uint32_t duration is kept as two 16-bit limbs << high, low >>, so that its
\* 32 bits and their wrapping are those of the code.
U32Limbs(v) == << (v \div 65536) % 65536, v % 65536 >>

U32LimbBytes(l) == << l[1] \div 256, l[1] % 256, l[2] \div 256, l[2] % 256 >>

\* duration += ...: the sum modulo 2^32.
AddU32(a, b) ==
    LET lo == a[2] + b[2]
        hi == a[1] + b[1] + (lo \div 65536)
    IN  << hi % 65536, lo % 65536 >>

RECURSIVE SumDuration(_, _)
SumDuration(segs, k) ==
    IF k > Len(segs) THEN U32Limbs(0)
    ELSE AddU32(U32Limbs(pieces_duration_90k(segs[k].recording, segs[k].pieces)),
                SumDuration(segs, k + 1))

RECURSIVE MaxTime90k(_, _)
MaxTime90k(segs, k) ==
    IF k > Len(segs) THEN 0
    ELSE Max(segs[k].recording.start_time_90k + pieces_end_90k(segs[k].pieces),
             MaxTime90k(segs, k + 1))

\* kFormatVersion.
kFormatVersion == << 0 >>

\* Recording::sample_file_sha1: the digest of the sample file, taken as
\* free of collisions, is the data it is the digest of.
sample_file_sha1(rec) == SampleFileData(rec)

\* What the constructor feeds the digest of the ETag, update by update; the
\* digest being taken as free of collisions, this stands for the ETag.
RECURSIVE EtagUpdates(_, _)
EtagUpdates(segs, k) ==
    IF k > Len(segs) THEN << >>
    ELSE << AppendU64(sample_pos(segs[k].pieces).end,
                      AppendU64(sample_pos(segs[k].pieces).begin, << >>)),
            sample_file_sha1(segs[k].recording) >>
             \o EtagUpdates(segs, k + 1)

Etag(segs) == << kFormatVersion >> \o EtagUpdates(segs, 1)

\* The constructor of Mp4File.
Mp4FileNew(segs, entry) ==
    LET duration == SumDuration(segs, 1)
        max_time_90k == MaxTime90k(segs, 1)
        L0 == LayoutAppend(NewLayout, "ftyp", 0, Len(kFtypBox))
        L1 == RunOps(AppendMoovOps(segs, entry), L0)
        size_before_mdat == FileSlicesSize(L1.slices)
        L2 == LayoutAppend(L1, "mdat", 0, HeaderSize("mdat"))
        initial_sample_byte_pos == FileSlicesSize(L2.slices)
        L3 == AppendSampleFiles(L2, segs, 1)
    IN  [ segments_ |-> segs,
          video_sample_entry_ |-> entry,
          slices_ |-> L3.slices,
          header_size |-> L3.header_size,
          scope_log |-> L3.log,
          net_duration |-> duration,
          net_creation_ts |-> ToIso14496Timestamp(max_time_90k),
          last_modified_ |-> max_time_90k \div kTimeUnitsPerSecond,
          initial_sample_byte_pos_ |-> initial_sample_byte_pos,
          etag_ |-> Etag(segs),
          mdat_largesize |-> MdatLargesize(FileSlicesSize(L3.slices), size_before_mdat) ]

\* Mp4File::size.
Mp4FileSize(f) == FileSlicesSize(f.slices_)

\* Mp4File::FillStscEntries.
\* A chunk counter that is never advanced.
NextChunkStuck(chunk) == chunk

\* ++chunk.
NextChunk(chunk) == chunk + 1

RECURSIVE FillStscFrom(_, _, _)
FillStscFrom(segs, k, chunk) ==
    IF k > Len(segs) THEN << >>
    ELSE AppendU32(1, AppendU32(samples(segs[k].pieces),
                                AppendU32(NextChunk(chunk), << >>)))
             \o FillStscFrom(segs, k + 1, NextChunk(chunk))

Mp4FileFillStscEntries(f) == FillStscFrom(f.segments_, 1, 0)

\* Mp4File::FillCo64Entries.
\* An advance by the whole sample file, whatever part of it is served.
Co64AdvanceWholeFile(f, k, pos) == pos + sample_file_bytes(f.segments_[k].recording)

\* pos += segment->sample_file_slice.size().
Co64Advance(f, k, pos) == pos + f.slices_[SliceIndex(f.slices_, "sample_file", k)].size

RECURSIVE FillCo64From(_, _, _)
FillCo64From(f, k, pos) ==
    IF k > Len(f.segments_) THEN << >>
    ELSE AppendU64(pos, << >>) \o FillCo64From(f, k + 1, Co64Advance(f, k, pos))

Mp4FileFillCo64Entries(f) == FillCo64From(f, 1, f.initial_sample_byte_pos_)

\* The entry counts AppendStbl adds up over the segments.
SttsEntryCount(segs) ==
    SumSeq([ k \in 1..Len(segs) |-> stts_entry_count(segs[k].pieces) ])

StszEntryCount(segs) ==
    SumSeq([ k \in 1..Len(segs) |-> stsz_entry_count(segs[k].pieces) ])

StscEntryCount(segs) == Len(segs)

Co64EntryCount(segs) == Len(segs)

StssEntryCount(segs) ==
    SumSeq([ k \in 1..Len(segs) |-> stss_entry_count(segs[k].pieces) ])

\* The bytes of the header struct of a box.
HeaderBytes(f, box) ==
    LET ts == U32(f.net_creation_ts)
        dur == U32LimbBytes(f.net_duration)
        head == U32(f.header_size[box]) \o BoxType(box)
    IN  CASE box \in {"moov", "trak", "mdia", "minf", "stbl"} -> head
          [] box = "mvhd" ->
                head \o U32(0) \o ts \o ts \o U32(kTimeUnitsPerSecond) \o dur
                    \o U32(65536) \o U16(256) \o U16(0) \o U32(0) \o U32(0) \o Matrix
                    \o U32(0) \o U32(0) \o U32(0) \o U32(0) \o U32(0) \o U32(0) \o U32(2)
          [] box = "tkhd" ->
                head \o U32(7) \o ts \o ts \o U32(1) \o U32(0) \o dur
                    \o U32(0) \o U32(0) \o U16(0) \o U16(0) \o U16(0) \o U16(0) \o Matrix
                    \o U32(f.video_sample_entry_.width * 65536)
                    \o U32(f.video_sample_entry_.height * 65536)
          [] box = "mdhd" ->
                head \o U32(0) \o ts \o ts \o U32(kTimeUnitsPerSecond) \o dur
                    \o U16(21956) \o U16(0)
          [] box = "stsd" -> head \o U32(0) \o U32(1)
          [] box = "stts" -> head \o U32(0) \o U32(SttsEntryCount(f.segments_))
          [] box = "stsc" -> head \o U32(0) \o U32(StscEntryCount(f.segments_))
          [] box = "stsz" ->
                head \o U32(0) \o U32(0) \o U32(StszEntryCount(f.segments_))
          [] box = "co64" -> head \o U32(0) \o U32(Co64EntryCount(f.segments_))
          [] box = "stss" -> head \o U32(0) \o U32(StssEntryCount(f.segments_))
          [] box = "mdat" -> U32(1) \o BoxType(box) \o U64(f.mdat_largesize)

(***************************************************************************)
(* Serving. A slice's AddRange appends the bytes [b, e) of the slice; a     *)
(* filler slice runs its filler first and fails when the filler did not     *)
(* produce the size declared for the slice. The result is [ret, bytes]:     *)
(* ret the number of bytes appended, -1 on failure.                         *)
(***************************************************************************)
FillerNames == { "stts_entries", "stsz_entries", "stss_entries", "stsc_entries", "co64_entries" }

\* What the filler of a filler slice produces.
FillerOutput(f, sl) ==
    LET seg == f.segments_[sl.seg]
    IN  CASE sl.name = "stts_entries" -> FillSttsEntries(seg.recording, seg.pieces)
          [] sl.name = "stsz_entries" -> FillStszEntries(seg.recording, seg.pieces)
          [] sl.name = "stss_entries" -> FillStssEntries(seg.recording, seg.pieces)
          [] sl.name = "stsc_entries" -> Mp4FileFillStscEntries(f)
          [] sl.name = "co64_entries" -> Mp4FileFillCo64Entries(f)

\* The bytes of a slice that is not a filler.
SliceData(f, sl) ==
    CASE sl.name = "ftyp" -> kFtypBox
      [] sl.name = "hdlr" -> kHdlrBox
      [] sl.name = "vmhddinf" -> kVmhdAndDinfBoxes
      [] sl.name = "stsd_entry" -> f.video_sample_entry_.data
      [] sl.name = "sample_file" ->
            LET seg == f.segments_[sl.seg]
            IN  SubSeq(SampleFileData(seg.recording),
                       sample_pos(seg.pieces).begin + 1, sample_pos(seg.pieces).end)
      [] OTHER -> HeaderBytes(f, sl.name)

SliceAddRange(f, sl, b, e) ==
    IF sl.name \in FillerNames
    THEN LET s == FillerOutput(f, sl)
         IN  IF Len(s) # sl.size
             THEN [ret |-> -1, bytes |-> << >>]
             ELSE [ret |-> e - b, bytes |-> SubSeq(s, b + 1, e)]
    ELSE [ret |-> e - b, bytes |-> SubSeq(SliceData(f, sl), b + 1, e)]

\* FileSlices::AddRange from slice i on: each slice that intersects
\* [begin, end) appends its part, in order; a failure ends the call.
RECURSIVE FileSlicesAddRangeFrom(_, _, _, _, _)
FileSlicesAddRangeFrom(f, i, begin, end, acc) ==
    IF i > Len(f.slices_) THEN acc
    ELSE LET s == SliceStart(f.slices_, i)
             e == s + f.slices_[i].size
             lo == Max(begin, s)
             hi == Min(end, e)
         IN  IF lo >= hi
             THEN FileSlicesAddRangeFrom(f, i + 1, begin, end, acc)
             ELSE LET r == SliceAddRange(f, f.slices_[i], lo - s, hi - s)
                  IN  IF r.ret < 0
                      THEN [ret |-> -1, bytes |-> acc.bytes]
                      ELSE FileSlicesAddRangeFrom(f, i + 1, begin, end,
                               [ret |-> acc.ret + r.ret, bytes |-> acc.bytes \o r.bytes])

FileSlicesAddRange(f, begin, end) ==
    FileSlicesAddRangeFrom(f, 1, begin, end, [ret |-> 0, bytes |-> << >>])

\* Mp4File::AddRange.
Mp4FileAddRange(f, begin, end) == FileSlicesAddRange(f, begin, end)

(***************************************************************************)
(* Mp4FileBuilder.                                                         *)
(***************************************************************************)
\* The video sample entry of a builder before SetSampleEntry.
NoSampleEntry == [id |-> -1, width |-> 0, height |-> 0, data |-> << >>]

SampleEntry(id) ==
    [id |-> id, width |-> 320 * id, height |-> 240 * id,
     data |-> [ i \in 1..(8 + id) |-> 96 + i ]]

\* The loop of Build over the segments from k on: [ok, error_message, segs].
\* A check of the sample entries that finds none inconsistent.
InconsistentSampleEntryNever(seg, entry) == FALSE

\* segment->recording.video_sample_entry_id != video_sample_entry_.id.
InconsistentSampleEntry(seg, entry) == seg.recording.video_sample_entry_id # entry.id

RECURSIVE BuildFrom(_, _, _, _, _)
BuildFrom(segs, entry, k, sample_offset, ae) ==
    IF k > Len(segs) THEN [ok |-> TRUE, error_message |-> "", segs |-> << >>]
    ELSE IF InconsistentSampleEntry(segs[k], entry)
    THEN [ok |-> FALSE, error_message |-> "inconsistent video sample entries",
          segs |-> << >>]
    ELSE LET r == PiecesInit(NewPieces(ae), segs[k].recording, 1, sample_offset,
                             segs[k].rel_start_90k, segs[k].rel_end_90k)
         IN  IF ~r.ok
             THEN [ok |-> FALSE, error_message |-> r.error_message, segs |-> << >>]
             ELSE LET rest == BuildFrom(segs, entry, k + 1,
                                        sample_offset + samples(r.pieces), ae)
                  IN  [ rest EXCEPT !.segs =
                          << [recording |-> segs[k].recording,
                              rel_start_90k |-> segs[k].rel_start_90k,
                              rel_end_90k |-> segs[k].rel_end_90k,
                              pieces |-> r.pieces] >> \o @ ]

\* Mp4FileBuilder::Build: [ok, error_message, file].
NoFile == [segments_ |-> << >>, slices_ |-> << >>]

BuilderBuild(segs, entry, ae) ==
    LET r == BuildFrom(segs, entry, 1, 1, ae)
    IN  IF ~r.ok THEN [ok |-> FALSE, error_message |-> r.error_message, file |-> NoFile]
        ELSE IF segs = << >>
        THEN [ok |-> FALSE, error_message |-> "Can't construct empty .mp4", file |-> NoFile]
        ELSE [ok |-> TRUE, error_message |-> "", file |-> Mp4FileNew(r.segs, entry)]

(***************************************************************************)
(* The state: a builder, the file it built and the last range served.       *)
(***************************************************************************)
VARIABLES
    segments_,            \* the builder's segments
    video_sample_entry_,  \* the builder's sample entry
    phase,                \* "building", then "built" or "failed"
    error_message,        \* Build's error message
    file,                 \* the Mp4File Build returned, NoFile for null
    response              \* the last AddRange: [begin, end, ret, bytes]

vars == << segments_, video_sample_entry_, phase, error_message, file, response >>

NoResponse == [begin |-> 0, end |-> 0, ret |-> 0, bytes |-> << >>, served |-> FALSE]

Init ==
    /\ segments_ = << >>
    /\ video_sample_entry_ = NoSampleEntry
    /\ phase = "building"
    /\ error_message = ""
    /\ file = NoFile
    /\ response = NoResponse

TotalFrames(segs) == SumSeq([ k \in 1..Len(segs) |-> Len(segs[k].recording.video_index) ])

\* The windows asked of a recording: 0 <= start <= end, up to past its end.
Windows(rec) ==
    LET d == end_time_90k(rec) - rec.start_time_90k
    IN  { w \in (0..(d + 1)) \X (0..(d + 1)) : w[1] <= w[2] }

\* Mp4FileBuilder::Append.
BuilderAppend(rec, rel_start_90k, rel_end_90k) ==
    /\ phase = "building"
    /\ segments_' = Append(segments_, [recording |-> rec,
                                       rel_start_90k |-> rel_start_90k,
                                       rel_end_90k |-> rel_end_90k])
    /\ UNCHANGED << video_sample_entry_, phase, error_message, file, response >>

\* Mp4FileBuilder::SetSampleEntry.
SetSampleEntry(entry) ==
    /\ phase = "building"
    /\ video_sample_entry_' = entry
    /\ UNCHANGED << segments_, phase, error_message, file, response >>

\* Mp4FileBuilder::Build.
Build ==
    /\ phase = "building"
    /\ \E ae \in UnsetActualEnd :
          \E r \in { BuilderBuild(segments_, video_sample_entry_, ae) } :
              /\ phase' = IF r.ok THEN "built" ELSE "failed"
              /\ error_message' = r.error_message
              /\ file' = r.file
              /\ segments_' = IF r.ok THEN << >> ELSE segments_
    /\ UNCHANGED << video_sample_entry_, response >>

\* Mp4File::AddRange into an empty buffer.
AddRange(begin, end) ==
    /\ phase = "built"
    /\ 0 <= begin /\ begin <= end /\ end <= Mp4FileSize(file)
    /\ \E r \in { Mp4FileAddRange(file, begin, end) } :
           response' = [begin |-> begin, end |-> end, ret |-> r.ret,
                        bytes |-> r.bytes, served |-> TRUE]
    /\ UNCHANGED << segments_, video_sample_entry_, phase, error_message, file >>

(***************************************************************************)
(* Spec: builds of up to MaxTotalFrames frames in any number of segments,   *)
(* and the whole file read. Each segment takes one of five windows of its   *)
(* recording: nothing, its first tick, all but its first tick, the whole on *)
(* the slow path's side of the fast path's condition, and more than the     *)
(* whole. SpecPieces below takes every window.                              *)
(***************************************************************************)
Recordings == { r \in RecordingsUpTo(MaxTotalFrames, 1) : ValidRecording(r) }

LayoutWindows(rec) ==
    LET d == end_time_90k(rec) - rec.start_time_90k
    IN  { << 0, 0 >>, << 0, 1 >>, << 1, d >>, << 0, d >>, << 0, d + 1 >> }

Next ==
    \/ \E rec \in Recordings : \E w \in LayoutWindows(rec) :
          /\ TotalFrames(segments_) + Len(rec.video_index) <= MaxTotalFrames
          /\ BuilderAppend(rec, w[1], w[2])
    \/ SetSampleEntry(SampleEntry(1))
    \/ Build
    \/ ~response.served /\ AddRange(0, Mp4FileSize(file))

Spec == Init /\ [][Next]_vars

(***************************************************************************)
(* SpecPieces: builds of one segment of up to MaxPiecesFrames frames.       *)
(***************************************************************************)
PiecesRecordings == { r \in RecordingsUpTo(MaxPiecesFrames, 1) : ValidRecording(r) }

NextPieces ==
    \/ \E rec \in PiecesRecordings : \E w \in Windows(rec) :
          /\ segments_ = << >>
          /\ BuilderAppend(rec, w[1], w[2])
    \/ SetSampleEntry(SampleEntry(1))
    \/ Build
    \/ ~response.served /\ AddRange(0, Mp4FileSize(file))

SpecPieces == Init /\ [][NextPieces]_vars

(***************************************************************************)
(* SpecServe: files of up to MaxServeSegments segments, each the whole of a *)
(* recording of one or two frames or its first tick, and ranges between the *)
(* starts of the sample tables and of the sample files served, one range    *)
(* of each file.                                                            *)
(***************************************************************************)
ServeRecordings ==
    { r \in RecordingsUpTo(2, 1) : ValidRecording(r) /\ r.video_index[1].is_key }

ServeWindows(rec) == { << 0, 1 >>, << 0, end_time_90k(rec) - rec.start_time_90k >> }

\* The offsets ranges are served between.
RangePoints(f) ==
    { 0, 1, Mp4FileSize(f) }
        \cup { SliceStart(f.slices_, i) :
                 i \in { j \in 1..Len(f.slices_) :
                           f.slices_[j].name \in FillerNames \cup {"sample_file"} } }

NextServe ==
    \/ \E rec \in ServeRecordings : \E w \in ServeWindows(rec) :
          /\ Len(segments_) < MaxServeSegments
          /\ BuilderAppend(rec, w[1], w[2])
    \/ SetSampleEntry(SampleEntry(1))
    \/ Build
    \/ \E a \in RangePoints(file) : \E c \in RangePoints(file) :
          /\ phase = "built" /\ ~response.served
          /\ AddRange(a, c)

SpecServe == Init /\ [][NextServe]_vars

(***************************************************************************)
(* SpecBuild: builds of up to MaxBuildSegments segments over recordings of  *)
(* one frame and of either sample entry, with either sample entry set in    *)
(* the builder or none, each segment asking for nothing (slow path) or for  *)
(* the whole recording (fast path).                                         *)
(***************************************************************************)
BuildRecordings ==
    UNION { { r \in RecordingsUpTo(1, id) : ValidRecording(r) } : id \in SampleEntryIds }

BuildWindows == { << 0, 0 >>, << 0, 1 >> }

NextBuild ==
    \/ \E rec \in BuildRecordings : \E w \in BuildWindows :
          /\ Len(segments_) < MaxBuildSegments
          /\ BuilderAppend(rec, w[1], w[2])
    \/ \E id \in SampleEntryIds : SetSampleEntry(SampleEntry(id))
    \/ Build
    \/ ~response.served /\ AddRange(0, Mp4FileSize(file))

SpecBuild == Init /\ [][NextBuild]_vars

(***************************************************************************)
(* SpecDuration: files of up to MaxDurationSegments whole recordings of one *)
(* frame that lasts one tick or the longest time an int32_t holds.          *)
(***************************************************************************)
LongDuration == 2147483647

DurationRecordings ==
    { [video_index |-> << [duration_90k |-> d, bytes |-> k.bytes, is_key |-> k.is_key] >>,
       video_sample_entry_id |-> 1, start_time_90k |-> 0] :
        d \in {1, LongDuration}, k \in FrameKinds }

NextDuration ==
    \/ \E rec \in DurationRecordings :
          /\ Len(segments_) < MaxDurationSegments
          /\ BuilderAppend(rec, 0, end_time_90k(rec) - rec.start_time_90k)
    \/ SetSampleEntry(SampleEntry(1))
    \/ Build
    \/ ~response.served /\ AddRange(0, Mp4FileSize(file))

SpecDuration == Init /\ [][NextDuration]_vars

(***************************************************************************)
(* The box tree of the file (ISO/IEC 14496-12 section 6.2.3): the parent of *)
(* each box and the slice that starts its next sibling.                     *)
(***************************************************************************)
Built == phase = "built"

BoxParent(box) ==
    CASE box \in {"mvhd", "trak"} -> "moov"
      [] box \in {"tkhd", "mdia"} -> "trak"
      [] box \in {"mdhd", "minf"} -> "mdia"
      [] box = "stbl" -> "minf"
      [] box \in {"stsd", "stts", "stsc", "stsz", "co64", "stss"} -> "stbl"
      [] OTHER -> ""

BoxNextSibling(box) ==
    CASE box = "moov" -> "mdat"
      [] box = "mvhd" -> "trak"
      [] box = "tkhd" -> "mdia"
      [] box = "mdhd" -> "hdlr"
      [] box = "stsd" -> "stts"
      [] box = "stts" -> "stsc"
      [] box = "stsc" -> "stsz"
      [] box = "stsz" -> "co64"
      [] box = "co64" -> "stss"
      [] OTHER -> ""

BoxStart(f, box) == SliceStart(f.slices_, SliceIndex(f.slices_, box, 0))

\* The offset of the box's next sibling, or of its parent's end.
RECURSIVE BoxEnd(_, _)
BoxEnd(f, box) ==
    IF BoxNextSibling(box) # "" THEN BoxStart(f, BoxNextSibling(box))
    ELSE BoxEnd(f, BoxParent(box))

\* The log's events of a box.
LogOf(f, ev, box) ==
    { i \in 1..Len(f.scope_log) : f.scope_log[i].ev = ev /\ f.scope_log[i].box = box }

\* Whether the constructions and destructions of log nest: each destruction
\* is of the box constructed last among those still open.
RECURSIVE Lifo(_, _)
Lifo(log, stack) ==
    IF log = << >> THEN stack = << >>
    ELSE IF Head(log).ev = "open" THEN Lifo(Tail(log), << Head(log).box >> \o stack)
    ELSE /\ stack # << >>
         /\ Head(stack) = Head(log).box
         /\ Lifo(Tail(log), Tail(stack))

SampleFileBytesServed(f) ==
    SumSeq([ k \in 1..Len(f.segments_) |-> SampleFileSliceSize(f.segments_[k].pieces) ])

(***************************************************************************)
(* C1. In a constructed Mp4File every box opened through ScopedMp4Box has   *)
(* a size field equal to the offset of its next sibling (or of its parent's *)
(* end) minus its own start, which is the size of the slices at its close   *)
(* minus that at its open; no size is 0, each box is opened and closed      *)
(* once, and the opens and closes nest (LIFO).                              *)
(***************************************************************************)
C1_BoxSizes ==
    Built =>
        /\ Lifo(file.scope_log, << >>)
        /\ \A box \in ScopedBoxes :
              /\ Cardinality(LogOf(file, "open", box)) = 1
              /\ Cardinality(LogOf(file, "close", box)) = 1
              /\ \A o \in LogOf(file, "open", box) : \A c \in LogOf(file, "close", box) :
                    /\ file.scope_log[o].at = BoxStart(file, box)
                    /\ file.header_size[box]
                           = file.scope_log[c].at - file.scope_log[o].at
              /\ file.header_size[box] = BoxEnd(file, box) - BoxStart(file, box)
              /\ file.header_size[box] # 0
              /\ DecodeU32(HeaderBytes(file, box), 0) = file.header_size[box]

C1_Witness ==
    /\ Built
    /\ Len(file.segments_) = 2
    /\ file.header_size["stts"] > HeaderSize("stts")
    /\ file.header_size["stss"] > HeaderSize("stss")

(***************************************************************************)
(* C2. As claimed: mdat's largesize is the number of bytes between the end  *)
(* of the mdat header and the end of the file, the sum of the sizes of the  *)
(* segments' sample file slices.                                            *)
(***************************************************************************)
C2_LargesizeIsPayload ==
    Built =>
        /\ file.mdat_largesize = Mp4FileSize(file) - file.initial_sample_byte_pos_
        /\ file.mdat_largesize = SampleFileBytesServed(file)

(***************************************************************************)
(* C2, amended. mdat's largesize is the size of the whole mdat box: the 16  *)
(* bytes of its header plus the sum of the sizes of the segments' sample    *)
(* file slices, which is the number of bytes from the start of the mdat     *)
(* header to the end of the file.                                           *)
(***************************************************************************)
C2_LargesizeIsBox ==
    Built =>
        /\ file.mdat_largesize = Mp4FileSize(file) - BoxStart(file, "mdat")
        /\ file.mdat_largesize = HeaderSize("mdat") + SampleFileBytesServed(file)
        /\ file.initial_sample_byte_pos_ = BoxStart(file, "mdat") + HeaderSize("mdat")
        /\ DecodeU64(HeaderBytes(file, "mdat"), 8) = file.mdat_largesize

C2_Witness ==
    /\ Built
    /\ Len(file.segments_) = 2
    /\ \A k \in 1..2 : SampleFileSliceSize(file.segments_[k].pieces) > 0

(***************************************************************************)
(* C3. As claimed: the size of a file of one recording on the fast path is  *)
(* the size of the moov box plus the size of the mdat header plus the       *)
(* recording's sample_file_bytes.                                           *)
(***************************************************************************)
SingleFastPath ==
    /\ Built
    /\ Len(file.segments_) = 1
    /\ InitFastPath(file.segments_[1].recording, file.segments_[1].rel_start_90k,
                    file.segments_[1].rel_end_90k)

C3_SizeWithoutFtyp ==
    SingleFastPath =>
        Mp4FileSize(file) = file.header_size["moov"] + HeaderSize("mdat")
                                + sample_file_bytes(file.segments_[1].recording)

(***************************************************************************)
(* C3, amended. The size of a file of one recording on the fast path is    *)
(* the 32 bytes of the ftyp box plus the size of the moov box plus the size *)
(* of the mdat header plus the recording's sample_file_bytes.               *)
(***************************************************************************)
C3_SizeWithFtyp ==
    SingleFastPath =>
        Mp4FileSize(file) = Len(kFtypBox) + file.header_size["moov"] + HeaderSize("mdat")
                                + sample_file_bytes(file.segments_[1].recording)

C3_Witness ==
    /\ SingleFastPath
    /\ Len(file.segments_[1].recording.video_index) = 2
    /\ response.served /\ response.ret = Mp4FileSize(file)

(***************************************************************************)
(* C4. As claimed: for a constructed file and 0 <= a <= b <= c <= size(),   *)
(* the bytes AddRange appends for [a, b) followed by those it appends for   *)
(* [b, c) are the bytes it appends for [a, c), and the range [0, size())    *)
(* yields size() bytes.                                                     *)
(***************************************************************************)
C4_RangeConcatenation ==
    response.served =>
        /\ \A b \in RangePoints(file) :
              response.begin <= b /\ b <= response.end =>
                  Mp4FileAddRange(file, response.begin, b).bytes
                      \o Mp4FileAddRange(file, b, response.end).bytes = response.bytes
        /\ Len(response.bytes) = response.end - response.begin

\* The filler slices of f whose filler produces another length than declared.
BrokenFillers(f) ==
    { i \in 1..Len(f.slices_) :
        /\ f.slices_[i].name \in FillerNames
        /\ Len(FillerOutput(f, f.slices_[i])) # f.slices_[i].size }

\* C4 where it does hold: on the files all of whose fillers produce their
\* declared sizes, ranges concatenate and every range is served in full.
C4_OnSoundFillers ==
    response.served /\ BrokenFillers(file) = { } =>
        /\ C4_RangeConcatenation
        /\ response.ret = response.end - response.begin

\* A range served across a filler that fails.
C4_FailedAcrossBrokenFiller ==
    /\ response.served
    /\ response.ret = -1
    /\ \E i \in BrokenFillers(file) :
          /\ response.begin < SliceStart(file.slices_, i)
          /\ SliceStart(file.slices_, i) + file.slices_[i].size < response.end

(***************************************************************************)
(* C5. As claimed: for every segment whose Init succeeded, FillSttsEntries  *)
(* produces exactly 8 * frames bytes, FillStszEntries exactly 4 * frames    *)
(* and FillStssEntries exactly 4 * key_frames, frames and key_frames being  *)
(* the counts Init computed.                                                *)
(***************************************************************************)
FillersMatch(seg) ==
    /\ Len(FillSttsEntries(seg.recording, seg.pieces)) = 8 * seg.pieces.frames_
    /\ Len(FillStszEntries(seg.recording, seg.pieces)) = 4 * seg.pieces.frames_
    /\ Len(FillStssEntries(seg.recording, seg.pieces)) = 4 * seg.pieces.key_frames_

C5_FillersProduceDeclaredSizes ==
    Built => \A k \in 1..Len(file.segments_) : FillersMatch(file.segments_[k])

\* Whether the last frame of the recording has no duration.
TrailingZero(rec) == rec.video_index[Len(rec.video_index)].duration_90k = 0

SegFastPath(seg) == InitFastPath(seg.recording, seg.rel_start_90k, seg.rel_end_90k)

\* C5 where it does hold: every segment but one on the fast path whose
\* recording ends in a frame of no duration, which Init counts and the
\* fillers, stopping at desired_end_90k_, leave out.
C5_ExceptTrailingZeroOnFastPath ==
    Built =>
        \A k \in 1..Len(file.segments_) :
            LET seg == file.segments_[k]
            IN  FillersMatch(seg) <=>
                  ~(SegFastPath(seg) /\ TrailingZero(seg.recording)
                      /\ seg.rel_end_90k
                           = end_time_90k(seg.recording) - seg.recording.start_time_90k)

\* A segment for which Init declared more stts bytes than the filler produces.
C5_DeclaredMoreThanFilled ==
    /\ Built
    /\ \E k \in 1..Len(file.segments_) :
          LET seg == file.segments_[k]
          IN  /\ SegFastPath(seg)
              /\ Len(FillSttsEntries(seg.recording, seg.pieces)) < 8 * seg.pieces.frames_

(***************************************************************************)
(* C6. As claimed: after a successful Init with window [start_90k,          *)
(* end_90k), begin is the latest key frame of the recording that starts at  *)
(* or before start_90k, sample_pos.begin is its byte position, and frames   *)
(* and key_frames count frames from begin onward only.                      *)
(***************************************************************************)
KeyFramesIn(rec, lo, hi) ==
    Cardinality({ j \in lo..hi : j <= Len(rec.video_index) /\ ItIsKey(rec, j) })

BeginIsLatestKeyFrame(seg) ==
    LET rec == seg.recording
        p == seg.pieces
    IN  /\ ~ItDone(rec, p.begin_)
        /\ ItIsKey(rec, p.begin_)
        /\ ItStart90k(rec, p.begin_) <= seg.rel_start_90k
        /\ \A j \in 1..Len(rec.video_index) :
              ItIsKey(rec, j) /\ ItStart90k(rec, j) <= seg.rel_start_90k => j <= p.begin_
        /\ sample_pos(p).begin = ItPos(rec, p.begin_)
        /\ p.frames_ <= Len(rec.video_index) - p.begin_ + 1
        /\ p.key_frames_ = KeyFramesIn(rec, p.begin_, p.begin_ + p.frames_ - 1)

C6_BeginIsLatestKeyFrame ==
    Built => \A k \in 1..Len(file.segments_) : BeginIsLatestKeyFrame(file.segments_[k])

\* C6 where it does hold: on the recordings whose first frame is a key frame.
C6_OnKeyFramedRecordings ==
    Built =>
        \A k \in 1..Len(file.segments_) :
            file.segments_[k].recording.video_index[1].is_key
                => BeginIsLatestKeyFrame(file.segments_[k])

\* A file built from a recording whose first frame is not a key frame.
C6_BuiltFromNonKeyFirstFrame ==
    /\ Built
    /\ \E k \in 1..Len(file.segments_) :
          ~file.segments_[k].recording.video_index[1].is_key

(***************************************************************************)
(* C7. As claimed: after a successful Init with window [start_90k,          *)
(* end_90k), begin.start_90k <= start_90k and actual_end_90k >= end_90k.    *)
(***************************************************************************)
C7_EnclosesWindow ==
    Built =>
        \A k \in 1..Len(file.segments_) :
            LET seg == file.segments_[k]
            IN  /\ pieces_start_90k(seg.recording, seg.pieces) <= seg.rel_start_90k
                /\ pieces_end_90k(seg.pieces) >= seg.rel_end_90k

(***************************************************************************)
(* C7, amended. After a successful Init with window [start_90k, end_90k),  *)
(* begin.start_90k <= start_90k, and when end_90k > 0 the actual end is at  *)
(* or after the part of the window the recording has: actual_end_90k >=     *)
(* min(end_90k, the recording's duration), and it is never after the        *)
(* recording's end.                                                         *)
(***************************************************************************)
C7_EnclosesWindowWithinRecording ==
    Built =>
        \A k \in 1..Len(file.segments_) :
            LET seg == file.segments_[k]
                duration == end_time_90k(seg.recording) - seg.recording.start_time_90k
            IN  /\ pieces_start_90k(seg.recording, seg.pieces) <= seg.rel_start_90k
                /\ seg.rel_end_90k > 0 =>
                      /\ pieces_end_90k(seg.pieces) >= Min(seg.rel_end_90k, duration)
                      /\ pieces_end_90k(seg.pieces) <= duration

\* A slow-path window inside a recording of three frames that ends between
\* two frames, and one that ends after the recording.
C7_Witness ==
    /\ Built
    /\ Len(file.segments_) = 1
    /\ Len(file.segments_[1].recording.video_index) = 3
    /\ ~SegFastPath(file.segments_[1])
    /\ file.segments_[1].rel_start_90k = 1
    /\ file.segments_[1].rel_end_90k = 2
    /\ file.segments_[1].pieces.frames_ = 1

(***************************************************************************)
(* The tables of a file, decoded from what their fillers produce.           *)
(***************************************************************************)
DecodeU32s(s) == [ i \in 1..(Len(s) \div 4) |-> DecodeU32(s, 4 * (i - 1)) ]

DecodeU64s(s) == [ i \in 1..(Len(s) \div 8) |-> DecodeU64(s, 8 * (i - 1)) ]

StssTable(f) ==
    DecodeU32s(Concat([ k \in 1..Len(f.segments_) |->
                          FillStssEntries(f.segments_[k].recording, f.segments_[k].pieces) ]))

FramesBefore(f, k) == SumSeq([ j \in 1..(k - 1) |-> f.segments_[j].pieces.frames_ ])

TotalSegmentFrames(f) == FramesBefore(f, Len(f.segments_) + 1)

\* The sample numbers of the key frames of segment k: the frame at position
\* i (0-based) from begin is sample 1 + (frames of the segments before) + i.
RECURSIVE KeySampleNumbers(_, _, _)
KeySampleNumbers(f, k, i) ==
    LET seg == f.segments_[k]
    IN  IF i >= seg.pieces.frames_ THEN << >>
        ELSE (IF ItIsKey(seg.recording, seg.pieces.begin_ + i)
              THEN << 1 + FramesBefore(f, k) + i >> ELSE << >>)
                 \o KeySampleNumbers(f, k, i + 1)

ExpectedStss(f) == Concat([ k \in 1..Len(f.segments_) |-> KeySampleNumbers(f, k, 0) ])

(***************************************************************************)
(* C8. As claimed: the concatenated stss entries of a built file are the   *)
(* 1-based global sample numbers of the segments' key frames, the key frame *)
(* at position i of segment k being 1 + (frames of the segments before k)   *)
(* + i; they increase strictly and lie in [1, total frames].                *)
(***************************************************************************)
C8_StssSampleNumbers ==
    Built =>
        /\ StssTable(file) = ExpectedStss(file)
        /\ \A i \in 1..Len(StssTable(file)) :
              /\ 1 <= StssTable(file)[i] /\ StssTable(file)[i] <= TotalSegmentFrames(file)
              /\ i > 1 => StssTable(file)[i - 1] < StssTable(file)[i]

\* C8 where it does hold: on the files all of whose fillers produce their
\* declared sizes.
C8_OnSoundFillers ==
    BrokenFillers(file) = { } => C8_StssSampleNumbers

\* The entries that are written are numbered as claimed whatever the
\* recording: they are a strictly increasing selection of [1, total frames].
C8_WrittenEntriesIncrease ==
    Built =>
        \A i \in 1..Len(StssTable(file)) :
            /\ 1 <= StssTable(file)[i] /\ StssTable(file)[i] <= TotalSegmentFrames(file)
            /\ i > 1 => StssTable(file)[i - 1] < StssTable(file)[i]

\* A built file with a key frame that Init counted and stss leaves out.
C8_KeyFrameLeftOut ==
    /\ Built
    /\ Len(StssTable(file)) < Len(ExpectedStss(file))

(***************************************************************************)
(* C9. The co64 table of a built file has one entry per segment; its first  *)
(* entry is initial_sample_byte_pos (the offset of the first byte after the *)
(* mdat header), each next entry is the one before plus the size of that    *)
(* segment's sample file slice, and so each entry is the offset at which    *)
(* the segment's sample bytes start in the slices.                          *)
(***************************************************************************)
Co64Table(f) == DecodeU64s(Mp4FileFillCo64Entries(f))

C9_Co64Offsets ==
    Built =>
        LET co64 == Co64Table(file)
            n == Len(file.segments_)
        IN  /\ Len(Mp4FileFillCo64Entries(file)) = 8 * n
            /\ Len(co64) = n
            /\ DecodeU32(HeaderBytes(file, "co64"), 12) = n
            /\ co64[1] = file.initial_sample_byte_pos_
            /\ co64[1] = BoxStart(file, "mdat") + HeaderSize("mdat")
            /\ \A i \in 1..(n - 1) :
                  co64[i + 1] - co64[i] = SampleFileSliceSize(file.segments_[i].pieces)
            /\ \A i \in 1..n :
                  /\ co64[i] = SliceStart(file.slices_,
                                          SliceIndex(file.slices_, "sample_file", i))
                  /\ \A o \in 1..4 : Mp4FileFillCo64Entries(file)[8 * (i - 1) + o] = 0

\* Two segments, the first serving a part of its sample file only.
C9_Witness ==
    /\ Built
    /\ Len(file.segments_) = 2
    /\ SampleFileSliceSize(file.segments_[1].pieces) > 0
    /\ SampleFileSliceSize(file.segments_[1].pieces)
           < sample_file_bytes(file.segments_[1].recording)
    /\ response.served /\ response.ret = Mp4FileSize(file)

(***************************************************************************)
(* C10. The stsc table of a built file has exactly one row per segment,    *)
(* the row of the k-th segment (1-based) being (first_chunk = k,            *)
(* samples_per_chunk = the segment's frames, sample_description_index = 1), *)
(* and the entry_count of the stsc header is the number of segments.        *)
(***************************************************************************)
StscTable(f) == DecodeU32s(Mp4FileFillStscEntries(f))

C10_StscRows ==
    Built =>
        LET stsc == StscTable(file)
            n == Len(file.segments_)
            sl == file.slices_[SliceIndex(file.slices_, "stsc_entries", 0)]
        IN  /\ Len(Mp4FileFillStscEntries(file)) = 12 * n
            /\ sl.size = 12 * n
            /\ FillerOutput(file, sl) = Mp4FileFillStscEntries(file)
            /\ DecodeU32(HeaderBytes(file, "stsc"), 12) = n
            /\ \A k \in 1..n :
                  /\ stsc[3 * (k - 1) + 1] = k
                  /\ stsc[3 * (k - 1) + 2] = file.segments_[k].pieces.frames_
                  /\ stsc[3 * (k - 1) + 3] = 1

\* Two segments of which the second has frames.
C10_Witness ==
    /\ Built
    /\ Len(file.segments_) = 2
    /\ file.segments_[2].pieces.frames_ >= 1
    /\ StscTable(file)[4] = 2

(***************************************************************************)
(* C11. Build returns no file and sets the error message whenever the list  *)
(* of segments is empty or a segment's recording has another                *)
(* video_sample_entry_id than the builder's sample entry; it returns a file *)
(* only when neither holds and the Init of every segment succeeds (and then *)
(* it does). The message of an empty list is "Can't construct empty .mp4";  *)
(* that of a list whose first failure is an inconsistent segment is         *)
(* "inconsistent video sample entries".                                     *)
(***************************************************************************)
BuildDone == phase \in {"built", "failed"}

\* The segments Build was given: it moves them into the file it returns.
BuildInput == IF phase = "built" THEN file.segments_ ELSE segments_

InitSucceeds(seg) ==
    PiecesInit(NewPieces(0), seg.recording, 1, 1, seg.rel_start_90k, seg.rel_end_90k).ok

Inconsistent(segs) ==
    { k \in 1..Len(segs) : segs[k].recording.video_sample_entry_id # video_sample_entry_.id }

InitFailing(segs) == { k \in 1..Len(segs) : ~InitSucceeds(segs[k]) }

C11_BuildErrors ==
    BuildDone =>
        LET segs == BuildInput
            bad == Inconsistent(segs)
            failing == InitFailing(segs)
        IN  /\ segs = << >> \/ bad # { } =>
                  phase = "failed" /\ error_message # "" /\ file = NoFile
            /\ segs = << >> => error_message = "Can't construct empty .mp4"
            /\ (\E k \in bad : \A j \in failing : k <= j) =>
                  error_message = "inconsistent video sample entries"
            /\ phase = "built" <=> segs # << >> /\ bad = { } /\ failing = { }
            /\ phase = "built" => error_message = "" /\ file # NoFile

\* A failed build of two segments of which only the second is inconsistent.
C11_Witness ==
    /\ phase = "failed"
    /\ Len(segments_) = 2
    /\ Inconsistent(segments_) = {2}
    /\ InitFailing(segments_) = { }
    /\ error_message = "inconsistent video sample entries"

(***************************************************************************)
(* C12. As claimed: Build fails, with no file and the error message set,    *)
(* whenever the first frame of a segment's recording is not a key frame,    *)
(* whatever the window asked for, that of the whole recording included.     *)
(***************************************************************************)
NotKeyFramed(segs) == { k \in 1..Len(segs) : ~segs[k].recording.video_index[1].is_key }

C12_NotKeyFramedFails ==
    BuildDone /\ NotKeyFramed(BuildInput) # { } =>
        phase = "failed" /\ error_message # "" /\ file = NoFile

\* C12 where it does hold: Build fails when the segment is on the slow path,
\* and with this message when nothing else is wrong with the build.
C12_NotKeyFramedFailsOnSlowPath ==
    BuildDone =>
        \A k \in NotKeyFramed(BuildInput) :
            ~SegFastPath(BuildInput[k]) =>
                /\ phase = "failed" /\ file = NoFile
                /\ Len(BuildInput) = 1 /\ Inconsistent(BuildInput) = { } =>
                      error_message = "First frame must be a key frame."

\* The converse: a file built from a recording that starts with a frame that
\* is not a key frame is of a segment on the fast path.
C12_BuiltOnlyOnFastPath ==
    phase = "built" => \A k \in NotKeyFramed(BuildInput) : SegFastPath(BuildInput[k])

\* A file built and served in full from a recording whose first frame is not
\* a key frame.
C12_BuiltAndServed ==
    /\ phase = "built"
    /\ NotKeyFramed(file.segments_) # { }
    /\ response.served
    /\ response.ret = Mp4FileSize(file)

(***************************************************************************)
(* The total duration of the segments of a file, exactly: three 16-bit      *)
(* limbs << top, high, low >>, of which an unsigned 32-bit value holds the  *)
(* last two.                                                                *)
(***************************************************************************)
RECURSIVE ExactTotalDuration(_, _)
ExactTotalDuration(segs, k) ==
    IF k > Len(segs) THEN << 0, 0, 0 >>
    ELSE LET d == pieces_duration_90k(segs[k].recording, segs[k].pieces)
             rest == ExactTotalDuration(segs, k + 1)
             lo == rest[3] + (d % 65536)
             hi == rest[2] + (d \div 65536) + (lo \div 65536)
         IN  << rest[1] + (hi \div 65536), hi % 65536, lo % 65536 >>

\* The duration field of the header of a box, as limbs << high, low >>.
HeaderDuration(f, box) ==
    LET off == IF box = "tkhd" THEN 28 ELSE 24
        b == HeaderBytes(f, box)
    IN  << b[off + 1] * 256 + b[off + 2], b[off + 3] * 256 + b[off + 4] >>

DurationBoxes == { "mvhd", "tkhd", "mdhd" }

(***************************************************************************)
(* C13. As claimed: the duration in the mvhd, tkhd and mdhd headers of a    *)
(* built file is the sum over the segments of actual_end_90k -              *)
(* begin.start_90k, nothing of it lost in the unsigned 32-bit value.        *)
(***************************************************************************)
C13_DurationIsTotal ==
    Built =>
        \A box \in DurationBoxes :
            << 0 >> \o HeaderDuration(file, box) = ExactTotalDuration(file.segments_, 1)

\* C13 as far as it holds: the three headers hold the low 32 bits of the
\* total, which is the total when it is below 2^32.
C13_DurationIsTotalModulo ==
    Built =>
        LET total == ExactTotalDuration(file.segments_, 1)
        IN  \A box \in DurationBoxes :
                /\ HeaderDuration(file, box) = << total[2], total[3] >>
                /\ HeaderDuration(file, box) = file.net_duration

\* A built file whose segments last 2^32 ticks or more together.
C13_TotalWraps ==
    /\ Built
    /\ ExactTotalDuration(file.segments_, 1)[1] >= 1
    /\ response.served /\ response.ret = Mp4FileSize(file)

(***************************************************************************)
(* C14. As claimed: after every successful Init, frames >= key_frames >= 0, *)
(* and key_frames >= 1 whenever the window asked for is not empty           *)
(* (start_90k < end_90k).                                                   *)
(***************************************************************************)
CountsInOrder(seg) ==
    /\ seg.pieces.frames_ >= seg.pieces.key_frames_
    /\ seg.pieces.key_frames_ >= 0
    /\ seg.rel_start_90k < seg.rel_end_90k => seg.pieces.key_frames_ >= 1

C14_KeyFrameCounts ==
    Built => \A k \in 1..Len(file.segments_) : CountsInOrder(file.segments_[k])

\* C14 where it does hold: on the recordings whose first frame is a key
\* frame; on the others, frames >= key_frames >= 0 still holds.
C14_OnKeyFramedRecordings ==
    Built =>
        \A k \in 1..Len(file.segments_) :
            LET seg == file.segments_[k]
            IN  /\ seg.pieces.frames_ >= seg.pieces.key_frames_
                /\ seg.pieces.key_frames_ >= 0
                /\ seg.recording.video_index[1].is_key => CountsInOrder(seg)

\* A segment of a window that is not empty with frames and no key frame.
C14_FramesWithoutKeyFrame ==
    /\ Built
    /\ \E k \in 1..Len(file.segments_) :
          LET seg == file.segments_[k]
          IN  /\ seg.rel_start_90k < seg.rel_end_90k
              /\ seg.pieces.frames_ >= 2
              /\ seg.pieces.key_frames_ = 0

(***************************************************************************)
(* C15. As claimed: for every segment whose Init succeeded, sample_pos.end  *)
(* - sample_pos.begin, the size of the segment's sample file slice, is the  *)
(* sum of the sizes FillStszEntries emits for the segment.                  *)
(***************************************************************************)
StszSizes(seg) == DecodeU32s(FillStszEntries(seg.recording, seg.pieces))

StszTiles(seg) == SampleFileSliceSize(seg.pieces) = SumSeq(StszSizes(seg))

C15_StszTilesSampleRange ==
    Built => \A k \in 1..Len(file.segments_) : StszTiles(file.segments_[k])

\* C15 where it does hold: for the segments whose fillers produce their
\* declared sizes, and there the sizes are those of the frames from begin.
C15_OnSoundFillers ==
    Built =>
        \A k \in 1..Len(file.segments_) :
            LET seg == file.segments_[k]
            IN  /\ FillersMatch(seg) <=> StszTiles(seg)
                /\ \A i \in 1..Len(StszSizes(seg)) :
                      StszSizes(seg)[i] = ItBytes(seg.recording, seg.pieces.begin_ + i - 1)

\* A segment whose sample file slice is longer than its stsz sizes add up to.
C15_SliceLongerThanStsz ==
    /\ Built
    /\ \E k \in 1..Len(file.segments_) :
          SampleFileSliceSize(file.segments_[k].pieces) > SumSeq(StszSizes(file.segments_[k]))

(***************************************************************************)
(* The files Build returns for the recordings of the file built, with the   *)
(* same sample entry and any windows.                                       *)
(***************************************************************************)
\* The segments as they were appended, each with the window w gives it.
Appended(segs, w) ==
    [ k \in 1..Len(segs) |-> [recording |-> segs[k].recording,
                               rel_start_90k |-> w[k][1],
                               rel_end_90k |-> w[k][2]] ]

OwnWindows(segs) == [ k \in 1..Len(segs) |-> << segs[k].rel_start_90k, segs[k].rel_end_90k >> ]

\* Every choice of a window for each of the segments from the k-th on.
RECURSIVE WindowChoices(_, _)
WindowChoices(segs, k) ==
    IF k > Len(segs) THEN { << >> }
    ELSE { << w >> \o rest : w \in Windows(segs[k].recording),
                              rest \in WindowChoices(segs, k + 1) }

\* The files of the same recordings with other windows: [ae, own, other],
\* own the file of the windows of segs and other one of any windows, both
\* built with the same value ae of an actual end that Init leaves unset.
Rebuilds(segs, entry) ==
    { c \in UNION { { [ae |-> ae,
                       own |-> BuilderBuild(Appended(segs, OwnWindows(segs)), entry, ae),
                       other |-> BuilderBuild(Appended(segs, w), entry, ae)] :
                        w \in WindowChoices(segs, 1) } :
                    ae \in UnsetActualEnd } :
        c.own.ok /\ c.other.ok }

SameResponses(f, g) ==
    /\ Mp4FileSize(f) = Mp4FileSize(g)
    /\ \A a \in RangePoints(f) :
          Mp4FileAddRange(f, a, Mp4FileSize(f)) = Mp4FileAddRange(g, a, Mp4FileSize(f))

(***************************************************************************)
(* C16. As claimed: two files built from the same recordings and the same  *)
(* sample entry whose ETags are computed from equal inputs have the same    *)
(* size() and serve the same bytes for every range, even when the windows   *)
(* asked for differ.                                                        *)
(***************************************************************************)
C16_EtagIsStrongValidator ==
    response.served =>
        \A c \in Rebuilds(file.segments_, file.video_sample_entry_) :
            c.own.file = file /\ c.other.file.etag_ = file.etag_ =>
                /\ SameResponses(file, c.other.file)
                /\ Mp4FileAddRange(c.other.file, response.begin, response.end).ret
                       = response.ret
                /\ Mp4FileAddRange(c.other.file, response.begin, response.end).bytes
                       = response.bytes

\* C16 where it does hold: between files all of whose fillers produce their
\* declared sizes, which are then the same file but for the windows asked.
C16_OnSoundFillers ==
    response.served =>
        \A c \in Rebuilds(file.segments_, file.video_sample_entry_) :
            /\ c.own.file = file /\ c.other.file.etag_ = file.etag_
            /\ BrokenFillers(file) = { } /\ BrokenFillers(c.other.file) = { }
            => /\ SameResponses(file, c.other.file)
               /\ Mp4FileAddRange(c.other.file, response.begin, response.end).bytes
                      = response.bytes
               /\ response.ret = Mp4FileSize(file)

\* Two files of one recording with equal ETags, one served in full and one
\* that fails.
C16_SameEtagOneFails ==
    /\ response.served
    /\ response.ret = Mp4FileSize(file)
    /\ \E c \in Rebuilds(file.segments_, file.video_sample_entry_) :
          /\ c.own.file = file
          /\ c.other.file.etag_ = file.etag_
          /\ Mp4FileAddRange(c.other.file, 0, Mp4FileSize(file)).ret = -1

=============================================================================
